---------------------------- MODULE Spec2Model ----------------------------
(***************************************************************************)
(* Electricity price windowing and recommendation engine of the           *)
(* walk-buddy-logger dashboard: the ingest edge function                  *)
(* (fetch-electricity-prices), the recommend edge function                *)
(* (get-electricity-recommendations) and the two tables they share.       *)
(*                                                                         *)
(* Units.  A price is an integer number of hundredths of a USD/MWh: the   *)
(* code stores Math.round(x * 100) / 100, so every price it handles is a  *)
(* multiple of 0.01.  An instant is an integer number of minutes since    *)
(* local midnight of day 0.                                                *)
(***************************************************************************)
EXTENDS Integers, Sequences, FiniteSets, TLC

\* ------------------------------------------------------------------ bounds
MaxRuns == 3          \* runs of equal prices in an enumerated price series
MaxRunLen == 3        \* observations per run
MaxSample == 5        \* rows of an enumerated historical sample
MaxRecRuns == 3       \* runs in the series whose windows a recommendation reads
MaxRecRunLen == 2     \* observations per run of those series
MaxFeedLen == 1       \* observations in a series the upstream feed returns
MaxRequests == 2      \* requests served: scheduled ingestions and recommendations
MaxRaceLen == 2       \* observations of the cycle a racing rebuild replaces
MaxObs == 3           \* rows of an enumerated price table

\* --------------------------------------------------------- program constants
USD(x) == x * 100

FallbackP25 == USD(25)
FallbackP50 == USD(35)
FallbackP75 == USD(45)
SlotMinutes == 60
DayMinutes == 24 * 60
LookbackDays == 30

Null == [label |-> "null"]

\* ------------------------------------------------------------ pure helpers
RECURSIVE SumSeq(_)
SumSeq(s) == IF s = << >> THEN 0 ELSE Head(s) + SumSeq(Tail(s))

RECURSIVE Concat(_)
Concat(ss) == IF ss = << >> THEN << >> ELSE Head(ss) \o Concat(Tail(ss))

\* prices.map(p => p.lmp_usd_mwh)
Values(prices) == [j \in 1..Len(prices) |-> prices[j].lmp_usd_mwh]

\* Math.round(x) of the rational num/den (den > 0): halves round towards +oo
MathRound(num, den) == (2 * num + den) \div (2 * den)

\* faulty variant: an index past the end reads as 0
IndexOrUndefinedIsZero(arr, i, d) ==
  IF i >= 0 /\ i < Len(arr) THEN arr[i + 1] ELSE 0

\* JavaScript's  arr[i] || d : an index past the end reads undefined, and
\* undefined and 0 are both falsy (arr is 0-based there, 1-based here)
IndexOr(arr, i, d) ==
  IF i >= 0 /\ i < Len(arr) /\ arr[i + 1] # 0 THEN arr[i + 1] ELSE d

\* lines 162-164: nearest-rank breakpoints with their  ||  defaults
Percentiles(sortedPrices) ==
  LET n == Len(sortedPrices) IN
  [p25 |-> IndexOr(sortedPrices, n \div 4, FallbackP25),
   p50 |-> IndexOr(sortedPrices, n \div 2, FallbackP50),
   p75 |-> IndexOr(sortedPrices, (3 * n) \div 4, FallbackP75)]

\* faulty variant: the comparisons are strict, a tie takes the dearer label
ClassifyStrict(v, bp) ==
  IF v < bp.p25 THEN [label |-> "great", percentile |-> 25]
  ELSE IF v < bp.p50 THEN [label |-> "good", percentile |-> 50]
  ELSE IF v < bp.p75 THEN [label |-> "okay", percentile |-> 75]
  ELSE [label |-> "avoid", percentile |-> 100]

\* lines 177-189: the label ladder
Classify(v, bp) ==
  IF v <= bp.p25 THEN [label |-> "great", percentile |-> 25]
  ELSE IF v <= bp.p50 THEN [label |-> "good", percentile |-> 50]
  ELSE IF v <= bp.p75 THEN [label |-> "okay", percentile |-> 75]
  ELSE [label |-> "avoid", percentile |-> 100]

\* lines 195-204: a new window seeded with one observation
SeedWindow(price, c) ==
  [start_time |-> price.timestamp, end_time |-> price.timestamp, zone |-> "J",
   label |-> c.label,
   avg_price |-> [num |-> price.lmp_usd_mwh, den |-> 1],
   percentile |-> c.percentile, duration_minutes |-> SlotMinutes,
   prices |-> <<price.lmp_usd_mwh>>]

\* faulty variant: the duration is the span of the timestamps plus one slot
ExtendWindowBySpan(w, price) ==
  LET ps == Append(w.prices, price.lmp_usd_mwh) IN
  [w EXCEPT !.end_time = price.timestamp,
            !.duration_minutes = (price.timestamp - w.start_time) + SlotMinutes,
            !.prices = ps,
            !.avg_price = [num |-> SumSeq(ps), den |-> Len(ps)]]

\* faulty variant: the extension forgets  duration_minutes += 60
ExtendWindowKeepsDuration(w, price) ==
  LET ps == Append(w.prices, price.lmp_usd_mwh) IN
  [w EXCEPT !.end_time = price.timestamp,
            !.prices = ps,
            !.avg_price = [num |-> SumSeq(ps), den |-> Len(ps)]]

\* lines 206-209: the current window extended by one observation
ExtendWindow(w, price) ==
  LET ps == Append(w.prices, price.lmp_usd_mwh) IN
  [w EXCEPT !.end_time = price.timestamp,
            !.duration_minutes = @ + SlotMinutes,
            !.prices = ps,
            !.avg_price = [num |-> SumSeq(ps), den |-> Len(ps)]]

\* faulty variant: every observation opens a window of its own
OpensWindowAlways(currentWindow, label) == TRUE

\* faulty variant: a window is opened for the first observation only
OpensWindowOnlyFirst(currentWindow, label) == currentWindow = Null

\* lines 191-210: does this observation open a new window?
OpensWindow(currentWindow, label) ==
  currentWindow = Null \/ currentWindow.label # label

\* lines 173-210: one iteration of the scan; st = [windows, currentWindow]
ScanStep(st, price, bp) ==
  LET c == Classify(price.lmp_usd_mwh, bp) IN
  IF OpensWindow(st.currentWindow, c.label)
  THEN [windows |-> IF st.currentWindow # Null
                    THEN Append(st.windows, st.currentWindow)
                    ELSE st.windows,
        currentWindow |-> SeedWindow(price, c)]
  ELSE [windows |-> st.windows,
        currentWindow |-> ExtendWindow(st.currentWindow, price)]

RECURSIVE Scan(_, _, _, _)
Scan(prices, i, st, bp) ==
  IF i > Len(prices) THEN st
  ELSE Scan(prices, i + 1, ScanStep(st, prices[i], bp), bp)

\* faulty variant: the window still open after the scan is dropped
EmitLastDropped(st) == st.windows

\* lines 213-215: the final open window is emitted
EmitLast(st) ==
  IF st.currentWindow # Null THEN Append(st.windows, st.currentWindow)
  ELSE st.windows

\* lines 168-215: the window-building scan
BuildWindows(prices, bp) ==
  EmitLast(Scan(prices, 1, [windows |-> << >>, currentWindow |-> Null], bp))

\* lines 224-227: the row persisted for a window
WindowInsert(w) ==
  [start_time |-> w.start_time, end_time |-> w.end_time, zone |-> w.zone,
   label |-> w.label, avg_price |-> MathRound(w.avg_price.num, w.avg_price.den),
   percentile |-> w.percentile, duration_minutes |-> w.duration_minutes]

WindowInserts(ws) == [k \in 1..Len(ws) |-> WindowInsert(ws[k])]

\* ------------------------------------------------------------ the two tables
\* electricity_prices: UNIQUE(timestamp, zone, source) and the CHECK on source
Key(r) == <<r.timestamp, r.zone, r.source>>

AllowedSources == {"real-time", "day-ahead"}

PriceRow(p, dataSource) ==
  [timestamp |-> p.timestamp, zone |-> "J", lmp_usd_mwh |-> p.lmp_usd_mwh,
   source |-> dataSource]

\* lines 128-133
PriceInserts(prices, dataSource) ==
  [k \in 1..Len(prices) |-> PriceRow(prices[k], dataSource)]

\* the statement is rejected as a whole: a row violating the CHECK, or two rows
\* of one INSERT ... ON CONFLICT DO UPDATE hitting the same key
UpsertRejected(rows) ==
  \/ \E k \in 1..Len(rows) : rows[k].source \notin AllowedSources
  \/ \E j, k \in 1..Len(rows) : j # k /\ Key(rows[j]) = Key(rows[k])

\* faulty variant: a plain insert into a table without the unique key
UpsertInsertOnly(table, rows) == table \cup {rows[k] : k \in 1..Len(rows)}

\* upsert(rows, { onConflict: 'timestamp,zone,source' })
Upsert(table, rows) ==
  {r \in table : \A k \in 1..Len(rows) : Key(rows[k]) # Key(r)}
    \cup {rows[k] : k \in 1..Len(rows)}

StartOfDay(t) == t - (t % DayMinutes)
EndOfDay(t) == StartOfDay(t) + DayMinutes - 1
HourOf(t) == (t % DayMinutes) \div 60

RECURSIVE SortedValues(_)
SortedValues(rows) ==
  IF rows = {} THEN << >>
  ELSE LET m == CHOOSE r \in rows : \A q \in rows : r.lmp_usd_mwh <= q.lmp_usd_mwh
       IN <<m.lmp_usd_mwh>> \o SortedValues(rows \ {m})

\* faulty variant: the read keeps the rows older than the lookback
HistoricalPricesOlderOnly(table, t) ==
  SortedValues({r \in table : r.zone = "J"
                              /\ r.timestamp < t - LookbackDays * DayMinutes})

\* lines 148-153 and 161: the 30-day sample, ordered by lmp_usd_mwh
HistoricalPrices(table, t) ==
  SortedValues({r \in table : r.zone = "J"
                              /\ r.timestamp >= t - LookbackDays * DayMinutes})

\* faulty variant: the delete removes nothing
DeleteOldKeepsAll(table, t) == table

\* lines 218-221: delete().lt('start_time', now)
DeleteOld(table, t) == SelectSeq(table, LAMBDA w : ~(w.start_time < t))

\* ------------------------------------------------------- the upstream feed
RunSeq(v, n, t0, spacing) ==
  [k \in 1..n |-> [timestamp |-> t0 + (k - 1) * spacing, lmp_usd_mwh |-> v]]

RECURSIVE SeriesOf(_, _, _, _, _)
SeriesOf(r, maxLen, values, t0, spacing) ==
  IF r = 0 THEN {<< >>}
  ELSE {<< >>} \cup
       UNION {UNION {{RunSeq(v, n, t0, spacing) \o rest :
                        rest \in SeriesOf(r - 1, maxLen, values,
                                          t0 + n * spacing, spacing)} :
                     n \in 1..maxLen} : v \in values}

\* lines 113-117, in hundredths: Math.sin((i - 6) * Math.PI / 12) * 15
HourFactor ==
  <<-1500, -1449, -1299, -1061, -750, -388, 0, 388, 750, 1061, 1299, 1449,
    1500, 1449, 1299, 1061, 750, 388, 0, -388, -750, -1061, -1299, -1449>>

Max(a, b) == IF a >= b THEN a ELSE b

\* lines 108-123: the 24 simulated observations of the day of t; noise is the
\* value of Math.random() * 10 - 5 in hundredths
Simulated(t, noise) ==
  [k \in 1..24 |->
     [timestamp |-> StartOfDay(t) + (k - 1) * 60,
      lmp_usd_mwh |-> Max(USD(10), USD(30) + HourFactor[k] + noise)]]

Noises == {-500, 499}
FeedValues == {USD(10), USD(40)}
FeedStart == 1 * 60
FeedSeries == SeriesOf(MaxFeedLen, 1, FeedValues, FeedStart, 60)

\* the time that passed since the previous request arrived
Elapsed == {0, 90}

\* what the GET of line 48 and the parse of lines 54-99 can yield
FeedOutcomes ==
  {[kind |-> "http_error", rows |-> << >>], [kind |-> "no_header", rows |-> << >>]}
    \cup {[kind |-> "ok", rows |-> s] : s \in FeedSeries}

\* ------------------------------------------------------------------ state
VARIABLES
  clock,                \* the wall clock, new Date()
  electricity_prices,   \* table: a set of rows
  electricity_windows,  \* table: rows in insertion order
  lastUpsert,           \* history: key -> value of the last upsert that landed
  ing,                  \* the ingest invocations, by how they were requested
  rec,                  \* the recommend invocation
  hist,                 \* the historical averaging invocation
  requests              \* requests that have arrived so far

vars == <<clock, electricity_prices, electricity_windows, lastUpsert,
          ing, rec, hist, requests>>

Ingesters == {"cron", "triggered"}

NoResponse == [status |-> 0]

IdleIngest ==
  [pc |-> "idle", now |-> 0, feed |-> "none", prices |-> << >>,
   dataSource |-> "real-time", sortedPrices |-> << >>,
   bp |-> [p25 |-> 0, p50 |-> 0, p75 |-> 0], windows |-> << >>,
   wrotePrices |-> FALSE, wroteWindows |-> FALSE, storeDown |-> FALSE,
   before |-> << >>, resp |-> NoResponse]

IdleHist ==
  [pc |-> "idle", now |-> 0, weeks_back |-> 0, prices |-> << >>,
   storeDown |-> FALSE, resp |-> NoResponse]

IdleRec ==
  [pc |-> "idle", now |-> 0, appliance |-> "laundry", requiredDuration |-> 0,
   windows |-> << >>, futureWindows |-> << >>, bestWindow |-> Null,
   prices |-> << >>, trigger |-> "none", storeDown |-> FALSE,
   resp |-> NoResponse]

Init ==
  /\ clock = 0
  /\ electricity_prices = {}
  /\ electricity_windows = << >>
  /\ lastUpsert = << >>
  /\ ing = [i \in Ingesters |-> IdleIngest]
  /\ rec = IdleRec
  /\ hist = IdleHist
  /\ requests = 0

\* ------------------------------------------------- ingest: the serve handler
Failed(r) == [r EXCEPT !.pc = "done", !.resp = [status |-> 500]]

\* line 14: a scheduled request reaches the function
CronRequest ==
  /\ ing["cron"].pc = "idle"
  /\ requests < MaxRequests
  /\ requests' = requests + 1
  /\ \E dt \in Elapsed : clock' = clock + dt
  /\ ing' = [ing EXCEPT !["cron"] = [IdleIngest EXCEPT !.pc = "start"]]
  /\ UNCHANGED <<electricity_prices, electricity_windows, lastUpsert, rec,
                 hist>>

\* lines 103-125: every throw of the try block lands in the fallback
FetchedPrices(feed, t, noise) ==
  IF feed.kind = "ok" /\ Len(feed.rows) > 0
  THEN [prices |-> feed.rows, dataSource |-> "real-time"]
  ELSE [prices |-> Simulated(t, noise), dataSource |-> "simulated"]

\* lines 27-133: now, the upstream fetch and its parse, the fallback
IngestFetch(self) ==
  /\ ing[self].pc = "start"
  /\ \E feed \in FeedOutcomes, noise \in Noises :
       LET f == FetchedPrices(feed, clock, noise) IN
       ing' = [ing EXCEPT ![self] =
                 [@ EXCEPT !.pc = "upsert", !.now = clock,
                           !.feed = IF feed.kind = "ok" /\ feed.rows = << >>
                                    THEN "no_rows" ELSE feed.kind,
                           !.prices = f.prices, !.dataSource = f.dataSource]]
  /\ UNCHANGED <<clock, electricity_prices, electricity_windows, lastUpsert,
                 rec, requests,
                 hist>>

Landed(rows) == [k \in {Key(rows[i]) : i \in 1..Len(rows)} |->
                   LET i == CHOOSE j \in 1..Len(rows) : Key(rows[j]) = k
                   IN rows[i].lmp_usd_mwh]

\* lines 135-142
IngestUpsert(self) ==
  /\ ing[self].pc = "upsert"
  /\ LET rows == PriceInserts(ing[self].prices, ing[self].dataSource) IN
     \E storeUp \in BOOLEAN :
       IF storeUp /\ ~UpsertRejected(rows)
       THEN /\ electricity_prices' = Upsert(electricity_prices, rows)
            /\ lastUpsert' = Landed(rows) @@ lastUpsert
            /\ ing' = [ing EXCEPT ![self] =
                         [@ EXCEPT !.pc = "histread", !.wrotePrices = TRUE]]
       ELSE /\ ing' = [ing EXCEPT ![self] =
                         Failed([@ EXCEPT !.storeDown = ~storeUp])]
            /\ UNCHANGED <<electricity_prices, lastUpsert>>
  /\ UNCHANGED <<clock, electricity_windows, rec, requests, hist>>

\* lines 144-215: the historical read; on its result the handler runs on to
\* the delete without another await
IngestHistoricalRead(self) ==
  /\ ing[self].pc = "histread"
  /\ \E storeUp \in BOOLEAN :
       LET sortedPrices == HistoricalPrices(electricity_prices, clock)
           bp == Percentiles(sortedPrices)
       IN ing' = [ing EXCEPT ![self] =
                    IF storeUp
                    THEN [@ EXCEPT !.pc = "delete", !.sortedPrices = sortedPrices,
                            !.bp = bp,
                            !.windows = BuildWindows(ing[self].prices, bp)]
                    ELSE Failed([@ EXCEPT !.storeDown = TRUE])]
  /\ UNCHANGED <<clock, electricity_prices, electricity_windows, lastUpsert,
                 rec, requests,
                 hist>>

\* lines 160-166 alone: the handler resumed at the percentile computation
IngestPercentiles(self) ==
  /\ ing[self].pc = "percentiles"
  /\ ing' = [ing EXCEPT ![self] =
               [@ EXCEPT !.pc = "build", !.bp = Percentiles(ing[self].sortedPrices)]]
  /\ UNCHANGED <<clock, electricity_prices, electricity_windows, lastUpsert,
                 rec, requests,
                 hist>>

\* lines 168-215 alone: the handler resumed at the window-building scan
IngestBuildWindows(self) ==
  /\ ing[self].pc = "build"
  /\ ing' = [ing EXCEPT ![self] =
               [@ EXCEPT !.pc = "delete",
                         !.windows = BuildWindows(ing[self].prices, ing[self].bp)]]
  /\ UNCHANGED <<clock, electricity_prices, electricity_windows, lastUpsert,
                 rec, requests,
                 hist>>

\* lines 217-221: the result of the delete is not looked at (before: the
\* table as the delete found it)
IngestDeleteOld(self) ==
  /\ ing[self].pc = "delete"
  /\ \E storeUp \in BOOLEAN :
       /\ electricity_windows' = IF storeUp
                                 THEN DeleteOld(electricity_windows, ing[self].now)
                                 ELSE electricity_windows
       /\ ing' = [ing EXCEPT ![self] =
                    [@ EXCEPT !.pc = "insert", !.before = electricity_windows,
                              !.storeDown = @ \/ ~storeUp]]
  /\ UNCHANGED <<clock, electricity_prices, lastUpsert, rec, requests,
                 hist>>

\* faulty variant: a stored window with the start_time of a new one is
\* overwritten by it, the other new windows are appended
IngestInsertWindowsUpdating(self) ==
  /\ ing[self].pc = "insert"
  /\ LET new == WindowInserts(ing[self].windows)
         Same(w, v) == w.zone = v.zone /\ w.start_time = v.start_time
         updated ==
           [k \in 1..Len(electricity_windows) |->
              IF \E j \in 1..Len(new) : Same(new[j], electricity_windows[k])
              THEN new[CHOOSE j \in 1..Len(new) :
                         Same(new[j], electricity_windows[k])]
              ELSE electricity_windows[k]]
         appended ==
           SelectSeq(new, LAMBDA v : \A k \in 1..Len(electricity_windows) :
                                       ~Same(v, electricity_windows[k]))
     IN electricity_windows' = updated \o appended
  /\ ing' = [ing EXCEPT ![self] =
               [@ EXCEPT !.pc = "done", !.wroteWindows = TRUE,
                  !.resp = [status |-> 200, success |-> TRUE,
                            prices |-> Len(ing[self].prices),
                            windows |-> Len(ing[self].windows),
                            percentiles |-> ing[self].bp,
                            dataSource |-> ing[self].dataSource]]]
  /\ UNCHANGED <<clock, electricity_prices, lastUpsert, rec, requests, hist>>

\* lines 223-252
IngestInsertWindows(self) ==
  /\ ing[self].pc = "insert"
  /\ \E storeUp \in BOOLEAN :
       IF storeUp
       THEN /\ electricity_windows' =
                 electricity_windows \o WindowInserts(ing[self].windows)
            /\ ing' = [ing EXCEPT ![self] =
                         [@ EXCEPT !.pc = "done", !.wroteWindows = TRUE,
                            !.resp = [status |-> 200, success |-> TRUE,
                                      prices |-> Len(ing[self].prices),
                                      windows |-> Len(ing[self].windows),
                                      percentiles |-> ing[self].bp,
                                      dataSource |-> ing[self].dataSource]]]
       ELSE /\ ing' = [ing EXCEPT ![self] =
                         Failed([@ EXCEPT !.storeDown = TRUE])]
            /\ UNCHANGED electricity_windows
  /\ UNCHANGED <<clock, electricity_prices, lastUpsert, rec, requests,
                 hist>>

\* the response of a scheduled request has been delivered
CronReturn ==
  /\ ing["cron"].pc = "done"
  /\ ing' = [ing EXCEPT !["cron"] = IdleIngest]
  /\ UNCHANGED <<clock, electricity_prices, electricity_windows, lastUpsert,
                 rec, requests,
                 hist>>

Ingest(self) ==
  \/ IngestFetch(self)
  \/ IngestUpsert(self)
  \/ IngestHistoricalRead(self)
  \/ IngestDeleteOld(self)
  \/ IngestInsertWindows(self)

\* -------------------------------------------- recommend: the serve handler
Appliances == {"dishwasher", "laundry", "dryer", "other"}

\* lines 9-13 and 27
RequiredDuration(appliance) ==
  CASE appliance = "dishwasher" -> 120
    [] appliance = "laundry" -> 90
    [] appliance = "dryer" -> 60
    [] OTHER -> 90

RemoveAt(s, i) == SubSeq(s, 1, i - 1) \o SubSeq(s, i + 1, Len(s))

\* .order('start_time'): every order of the rows that ascends in start_time
RECURSIVE OrderedByStart(_)
OrderedByStart(rows) ==
  IF rows = << >> THEN {<< >>}
  ELSE UNION {{<<rows[i]>> \o t : t \in OrderedByStart(RemoveAt(rows, i))} :
              i \in {j \in 1..Len(rows) :
                       \A k \in 1..Len(rows) :
                         rows[j].start_time <= rows[k].start_time}}

\* lines 64-70: the day's windows of the zone
DayWindows(table, zone, t) ==
  SelectSeq(table, LAMBDA w : /\ w.zone = zone
                              /\ w.start_time >= StartOfDay(t)
                              /\ w.start_time <= EndOfDay(t))

\* faulty variant: a window ending exactly now still counts as future
IsFutureOrNow(w, t) == w.end_time >= t

\* line 78
IsFuture(w, t) == w.end_time > t

FutureWindows(windows, t) == SelectSeq(windows, LAMBDA w : IsFuture(w, t))

\* faulty variant: the duration of a great window is not looked at
GreatWindowsAnyDuration(futureWindows, requiredDuration) ==
  SelectSeq(futureWindows, LAMBDA w : w.label = "great")

\* lines 83-85
GreatWindows(futureWindows, requiredDuration) ==
  SelectSeq(futureWindows,
            LAMBDA w : w.label = "great" /\ w.duration_minutes >= requiredDuration)

\* faulty variant: a window that is not great is skipped, the run goes on
RECURSIVE MergeRunSkipsNonGreat(_, _, _, _, _)
MergeRunSkipsNonGreat(fw, i, j, totalDuration, requiredDuration) ==
  IF j > Len(fw) THEN Null
  ELSE IF fw[j].label = "great"
  THEN LET total == totalDuration + fw[j].duration_minutes IN
       IF total >= requiredDuration
       THEN [fw[i] EXCEPT !.end_time = fw[j].end_time,
                          !.duration_minutes = total]
       ELSE MergeRunSkipsNonGreat(fw, i, j + 1, total, requiredDuration)
  ELSE MergeRunSkipsNonGreat(fw, i, j + 1, totalDuration, requiredDuration)

\* lines 98-114: the inner loop from j, the run having started at i
RECURSIVE MergeRun(_, _, _, _, _)
MergeRun(fw, i, j, totalDuration, requiredDuration) ==
  IF j > Len(fw) THEN Null
  ELSE IF fw[j].label = "great"
  THEN LET total == totalDuration + fw[j].duration_minutes IN
       IF total >= requiredDuration
       THEN [fw[i] EXCEPT !.end_time = fw[j].end_time,
                          !.duration_minutes = total]
       ELSE MergeRun(fw, i, j + 1, total, requiredDuration)
  ELSE Null

\* lines 93-118: the outer loop from i
RECURSIVE MergeScan(_, _, _)
MergeScan(fw, i, requiredDuration) ==
  IF i > Len(fw) THEN Null
  ELSE LET m == IF fw[i].label = "great"
                THEN MergeRun(fw, i, i + 1, fw[i].duration_minutes,
                              requiredDuration)
                ELSE Null
       IN IF m # Null THEN m ELSE MergeScan(fw, i + 1, requiredDuration)

\* faulty variant: best-fit, the cheapest sufficient great window
BestWindowCheapest(futureWindows, requiredDuration) ==
  LET greatWindows == GreatWindows(futureWindows, requiredDuration) IN
  IF Len(greatWindows) > 0
  THEN greatWindows[CHOOSE k \in 1..Len(greatWindows) :
                      \A j \in 1..Len(greatWindows) :
                        greatWindows[k].avg_price <= greatWindows[j].avg_price]
  ELSE MergeScan(futureWindows, 1, requiredDuration)

\* lines 83-119
BestWindow(futureWindows, requiredDuration) ==
  LET greatWindows == GreatWindows(futureWindows, requiredDuration) IN
  IF Len(greatWindows) > 0 THEN greatWindows[1]
  ELSE MergeScan(futureWindows, 1, requiredDuration)

\* toLocaleTimeString('en-US', { hour, minute }): the time of day, without the day
TimeOfDayString(t) == t % DayMinutes

\* faulty variant: the absence of a window is formatted like a window
RecommendationOfNothing(bestWindow) ==
  LET windowHour == IF bestWindow = Null THEN 0
                    ELSE HourOf(bestWindow.start_time) IN
  [label |-> bestWindow.label,
   time |-> IF windowHour >= 18 \/ windowHour < 6 THEN "tonight" ELSE "today"]

\* lines 128-148
Recommendation(bestWindow) ==
  IF bestWindow = Null THEN Null
  ELSE LET windowHour == HourOf(bestWindow.start_time) IN
       [label |-> bestWindow.label,
        time |-> IF windowHour >= 18 \/ windowHour < 6 THEN "tonight" ELSE "today",
        startTime |-> TimeOfDayString(bestWindow.start_time),
        endTime |-> TimeOfDayString(bestWindow.end_time),
        avgPrice |-> bestWindow.avg_price,
        duration |-> bestWindow.duration_minutes]

\* the day's price rows of one source, .order('timestamp')
RECURSIVE SortedByTimestamp(_)
SortedByTimestamp(rows) ==
  IF rows = {} THEN << >>
  ELSE LET m == CHOOSE r \in rows : \A q \in rows : r.timestamp <= q.timestamp
       IN <<m>> \o SortedByTimestamp(rows \ {m})

DayPrices(table, zone, source, t) ==
  SortedByTimestamp({r \in table : /\ r.zone = zone /\ r.source = source
                                   /\ r.timestamp >= StartOfDay(t)
                                   /\ r.timestamp <= EndOfDay(t)})

\* faulty variant: among equal minima the last one is kept
RECURSIVE ReduceMinKeepsLast(_, _, _)
ReduceMinKeepsLast(ps, k, min) ==
  IF k > Len(ps) THEN min
  ELSE ReduceMinKeepsLast(ps, k + 1,
                          IF ps[k].lmp_usd_mwh <= min.lmp_usd_mwh THEN ps[k]
                          ELSE min)

\* lines 196-198: reduce without an initial value
RECURSIVE ReduceMin(_, _, _)
ReduceMin(ps, k, min) ==
  IF k > Len(ps) THEN min
  ELSE ReduceMin(ps, k + 1,
                 IF ps[k].lmp_usd_mwh < min.lmp_usd_mwh THEN ps[k] ELSE min)

\* lines 188-200
CheapestWakingHour(prices) ==
  LET wakingHoursPrices ==
        SelectSeq(prices, LAMBDA q : HourOf(q.timestamp) >= 8
                                     /\ HourOf(q.timestamp) <= 23)
  IN IF Len(wakingHoursPrices) > 0
     THEN ReduceMin(wakingHoursPrices, 2, wakingHoursPrices[1])
     ELSE Null

\* lines 15-46: now and the day-ahead check (the request body of line 26 is
\* bound where it is first used, in RecReadWindows)
RecStart ==
  /\ rec.pc = "idle"
  /\ requests < MaxRequests
  /\ requests' = requests + 1
  /\ \E dt \in Elapsed : clock' = clock + dt
  /\ \E storeUp \in BOOLEAN :
       LET dayAheadPrices ==
             IF storeUp
             THEN DayPrices(electricity_prices, "J", "day-ahead", clock')
             ELSE << >>
       IN rec' = [IdleRec EXCEPT
                    !.pc = IF Len(dayAheadPrices) = 0 THEN "trigger"
                           ELSE "readwindows",
                    !.now = clock']
  /\ UNCHANGED <<electricity_prices, electricity_windows, lastUpsert, ing,
                 hist>>

\* lines 49-61: the invocation is sent, or fails before it reaches the function
RecTrigger ==
  /\ rec.pc = "trigger"
  /\ \/ /\ ing["triggered"].pc = "idle"
        /\ ing' = [ing EXCEPT !["triggered"] = [IdleIngest EXCEPT !.pc = "start"]]
        /\ rec' = [rec EXCEPT !.pc = "await"]
     \/ /\ rec' = [rec EXCEPT !.pc = "readwindows", !.trigger = "threw"]
        /\ UNCHANGED ing
  /\ UNCHANGED <<clock, electricity_prices, electricity_windows, lastUpsert,
                 requests,
                 hist>>

\* faulty variant: an error the triggered ingestion returned is thrown
RecAwaitThrows ==
  /\ rec.pc = "await"
  /\ ing["triggered"].pc = "done"
  /\ ing' = [ing EXCEPT !["triggered"] = IdleIngest]
  /\ rec' = IF ing["triggered"].resp.status = 200
            THEN [rec EXCEPT !.pc = "readwindows", !.trigger = "ok"]
            ELSE [rec EXCEPT !.pc = "done", !.trigger = "error",
                             !.resp = [status |-> 500]]
  /\ UNCHANGED <<clock, electricity_prices, electricity_windows, lastUpsert,
                 requests,
                 hist>>

\* lines 52-57: await ... invoke(): the triggered ingestion has responded,
\* and an error it returned is logged
RecAwait ==
  /\ rec.pc = "await"
  /\ ing["triggered"].pc = "done"
  /\ ing' = [ing EXCEPT !["triggered"] = IdleIngest]
  /\ rec' = [rec EXCEPT !.pc = "readwindows",
                        !.trigger = IF ing["triggered"].resp.status = 200
                                    THEN "ok" ELSE "error"]
  /\ UNCHANGED <<clock, electricity_prices, electricity_windows, lastUpsert,
                 requests,
                 hist>>

\* lines 26-27 and 63-148
RecReadWindows ==
  /\ rec.pc = "readwindows"
  /\ \E appliance \in Appliances, storeUp \in BOOLEAN :
       IF storeUp
       THEN \E windows \in OrderedByStart(DayWindows(electricity_windows, "J",
                                                     rec.now)) :
              LET futureWindows == FutureWindows(windows, rec.now)
                  requiredDuration == RequiredDuration(appliance)
              IN rec' = [rec EXCEPT
                           !.pc = "readprices", !.appliance = appliance,
                           !.requiredDuration = requiredDuration,
                           !.windows = windows,
                           !.futureWindows = futureWindows,
                           !.bestWindow = BestWindow(futureWindows,
                                                     requiredDuration)]
       ELSE rec' = [rec EXCEPT !.pc = "done", !.storeDown = TRUE,
                               !.resp = [status |-> 500]]
  /\ UNCHANGED <<clock, electricity_prices, electricity_windows, lastUpsert,
                 ing, requests,
                 hist>>

\* lines 150-222
RecReadPrices ==
  /\ rec.pc = "readprices"
  /\ \E dayAheadUp \in BOOLEAN, realTimeUp \in BOOLEAN :
       LET dayAhead == IF dayAheadUp
                       THEN DayPrices(electricity_prices, "J", "day-ahead", rec.now)
                       ELSE << >>
           fallBack == Len(dayAhead) = 0
           prices == IF fallBack
                     THEN DayPrices(electricity_prices, "J", "real-time", rec.now)
                     ELSE dayAhead
           cheapest == CheapestWakingHour(prices)
       IN IF (fallBack /\ ~realTimeUp) \/ ~dayAheadUp
          THEN rec' = [rec EXCEPT !.pc = "done", !.storeDown = TRUE,
                                  !.resp = [status |-> 500]]
          ELSE rec' = [rec EXCEPT
                         !.pc = "done", !.prices = prices,
                         !.resp = [status |-> 200,
                                   recommendation |-> Recommendation(rec.bestWindow),
                                   windows |-> rec.windows,
                                   prices |-> prices,
                                   appliance |-> rec.appliance,
                                   requiredDuration |-> rec.requiredDuration,
                                   dataSource |-> IF fallBack THEN "real-time"
                                                  ELSE "day-ahead",
                                   cheapestWakingHour |->
                                     IF cheapest = Null THEN Null
                                     ELSE [hour |-> HourOf(cheapest.timestamp),
                                           price |-> cheapest.lmp_usd_mwh]]]
  /\ UNCHANGED <<clock, electricity_prices, electricity_windows, lastUpsert,
                 ing, requests,
                 hist>>

\* the response has been delivered
RecReturn ==
  /\ rec.pc = "done"
  /\ rec' = IdleRec
  /\ UNCHANGED <<clock, electricity_prices, electricity_windows, lastUpsert,
                 ing, requests,
                 hist>>

Recommend ==
  \/ RecStart
  \/ RecTrigger
  \/ RecAwait
  \/ RecReadWindows
  \/ RecReadPrices
  \/ RecReturn

\* ------------------------------- historical averaging: the serve handler
\* get-hourly-historical-averages/index.ts

\* getDay(): the day of the week of an instant (day 0 of the clock is the
\* week's day 0)
DayOfWeek(t) == (t \div DayMinutes) % 7

WeeksBack == {1, 2}

\* lines 31-36: the zone's prices of the past weeks_back weeks, by timestamp
LoadedPrices(table, zone, t, weeks_back) ==
  SortedByTimestamp({r \in table : /\ r.zone = zone
                                   /\ r.timestamp >= t - weeks_back * 7 * DayMinutes})

\* faulty variant: every loaded observation is kept, whatever its day
SameDayOfWeekAlways(ts, currentDayOfWeek) == TRUE

\* line 53
SameDayOfWeek(ts, currentDayOfWeek) == DayOfWeek(ts) = currentDayOfWeek

\* lines 46-60: per hour, the values of the observations of today's weekday
HourlyData(prices, currentDayOfWeek) ==
  [hour \in 0..23 |->
     Values(SelectSeq(prices,
                      LAMBDA q : /\ SameDayOfWeek(q.timestamp, currentDayOfWeek)
                                 /\ HourOf(q.timestamp) = hour))]

\* lines 65-77: one entry per hour; avgPrice is the rational sum / count
HourlyAverages(hourlyData) ==
  [k \in 1..24 |->
     LET pricesForHour == hourlyData[k - 1] IN
     [hour |-> k - 1,
      avgPrice |-> IF Len(pricesForHour) > 0
                   THEN [num |-> SumSeq(pricesForHour),
                         den |-> Len(pricesForHour)]
                   ELSE Null,
      sampleCount |-> Len(pricesForHour)]]

\* lines 9-25: a request arrives
HistRequest ==
  /\ hist.pc = "idle"
  /\ requests < MaxRequests
  /\ requests' = requests + 1
  /\ \E dt \in Elapsed : clock' = clock + dt
  /\ \E weeks_back \in WeeksBack :
       hist' = [IdleHist EXCEPT !.pc = "read", !.now = clock',
                                !.weeks_back = weeks_back]
  /\ UNCHANGED <<electricity_prices, electricity_windows, lastUpsert, ing, rec>>

\* lines 31-103
HistRead ==
  /\ hist.pc = "read"
  /\ \E storeUp \in BOOLEAN :
       IF storeUp
       THEN LET prices == LoadedPrices(electricity_prices, "J", hist.now,
                                       hist.weeks_back)
                currentDayOfWeek == DayOfWeek(hist.now)
            IN hist' = [hist EXCEPT
                          !.pc = "done", !.prices = prices,
                          !.resp = [status |-> 200,
                                    hourlyAverages |->
                                      HourlyAverages(HourlyData(prices,
                                                                currentDayOfWeek)),
                                    dayOfWeek |-> currentDayOfWeek,
                                    weeksAnalyzed |-> hist.weeks_back,
                                    zone |-> "J"]]
       ELSE hist' = [hist EXCEPT !.pc = "done", !.storeDown = TRUE,
                                 !.resp = [status |-> 500]]
  /\ UNCHANGED <<clock, electricity_prices, electricity_windows, lastUpsert,
                 ing, rec, requests>>

\* the response has been delivered
HistReturn ==
  /\ hist.pc = "done"
  /\ hist' = IdleHist
  /\ UNCHANGED <<clock, electricity_prices, electricity_windows, lastUpsert,
                 ing, rec, requests>>

Averages ==
  \/ HistRequest
  \/ HistRead
  \/ HistReturn

Next ==
  \/ CronRequest
  \/ CronReturn
  \/ \E self \in Ingesters : Ingest(self)
  \/ Recommend
  \/ Averages

Spec == Init /\ [][Next]_vars

\* the ingestions alone: the scheduled one, and the one a recommendation
\* triggers and awaits
NextIngest ==
  \/ CronRequest
  \/ CronReturn
  \/ \E self \in Ingesters : Ingest(self)
  \/ RecStart
  \/ RecTrigger
  \/ RecAwait

SpecIngest == Init /\ [][NextIngest]_vars

\* ------------------------------------------- the window-building scan alone
ScanValues == {USD(10), USD(15), USD(40)}
ScanBreaks == {USD(12), USD(20), USD(35)}

ScanSeries == SeriesOf(MaxRuns, MaxRunLen, ScanValues, FeedStart, 60) \ {<< >>}

\* series of the 5-minute feed
FineSeries == SeriesOf(2, MaxRunLen, ScanValues, FeedStart, 5) \ {<< >>}

\* breakpoints that the enumerated prices hit exactly
TieBreaks == {[p25 |-> USD(10), p50 |-> USD(15), p75 |-> USD(40)]}

Breakpoints ==
  [p25 : ScanBreaks, p50 : ScanBreaks, p75 : ScanBreaks] \cup TieBreaks

\* the handler at line 168, for every series and every breakpoint triple
InitScan ==
  /\ clock = 0
  /\ electricity_prices = {}
  /\ electricity_windows = << >>
  /\ lastUpsert = << >>
  /\ \E prices \in ScanSeries \cup FineSeries, bp \in Breakpoints :
       ing = [i \in Ingesters |->
                IF i = "cron"
                THEN [IdleIngest EXCEPT !.pc = "build", !.prices = prices,
                                        !.bp = bp]
                ELSE IdleIngest]
  /\ rec = IdleRec
  /\ hist = IdleHist
  /\ requests = 1

NextScan == IngestBuildWindows("cron")

SpecScan == InitScan /\ [][NextScan]_vars

\* ------------------------------------------ the percentile computation alone
SampleValues == {-USD(5), 0, USD(10), USD(20), USD(30)}

IsSorted(s) == \A k \in 1..(Len(s) - 1) : s[k] <= s[k + 1]

SortedSamples ==
  {s \in UNION {[1..n -> SampleValues] : n \in 0..MaxSample} : IsSorted(s)}

\* the handler at line 160, for every sample the read can return (a read
\* that returns no data gives the empty sample, line 161)
InitPercentiles ==
  /\ clock = 0
  /\ electricity_prices = {}
  /\ electricity_windows = << >>
  /\ lastUpsert = << >>
  /\ \E sample \in SortedSamples :
       ing = [i \in Ingesters |->
                IF i = "cron"
                THEN [IdleIngest EXCEPT !.pc = "percentiles",
                                        !.sortedPrices = sample]
                ELSE IdleIngest]
  /\ rec = IdleRec
  /\ hist = IdleHist
  /\ requests = 1

NextPercentiles == IngestPercentiles("cron")

SpecPercentiles == InitPercentiles /\ [][NextPercentiles]_vars

\* ------------------------------------------------- a recommendation alone
T0 == 6 * 60

RecValues == {USD(8), USD(10), USD(40)}
RecBreakpoints == [p25 |-> USD(12), p50 |-> USD(20), p75 |-> USD(35)]

\* the series of an earlier cycle, and of a later one whose single
\* observation lies in the following slot
RecFirstSeries == SeriesOf(MaxRecRuns, MaxRecRunLen, RecValues, T0, 60)
RecSecondSeries == SeriesOf(1, 1, RecValues, T0 + 60, 60)

\* the tables as two completed ingestion cycles leave them
InitRec ==
  /\ clock \in {T0 - 120, T0 - 60, T0 - 30}
  /\ \E s1 \in RecFirstSeries, s2 \in RecSecondSeries :
       LET rows1 == PriceInserts(s1, "real-time")
           rows2 == PriceInserts(s2, "real-time")
       IN /\ electricity_prices = Upsert(Upsert({}, rows1), rows2)
          /\ lastUpsert = Landed(rows2) @@ Landed(rows1)
          /\ electricity_windows =
               WindowInserts(BuildWindows(s1, RecBreakpoints))
                 \o WindowInserts(BuildWindows(s2, RecBreakpoints))
  /\ ing = [i \in Ingesters |-> IdleIngest]
  /\ rec = IdleRec
  /\ hist = IdleHist
  /\ requests = MaxRequests - 1

NextRec ==
  \/ RecStart
  \/ RecTrigger
  \/ RecReadWindows
  \/ RecReadPrices
  \/ RecReturn

SpecRec == InitRec /\ [][NextRec]_vars

\* ------------- recommendations and the ingestions they trigger, by themselves
NextWarm ==
  \/ RecStart
  \/ RecTrigger
  \/ Ingest("triggered")
  \/ RecAwait
  \/ RecReadWindows
  \/ RecReadPrices
  \/ RecReturn

SpecWarm == Init /\ [][NextWarm]_vars

\* ------ the request-driven operations: recommendations with the ingestions
\* they trigger, and historical averaging
NextServe ==
  \/ NextWarm
  \/ Averages

SpecServe == Init /\ [][NextServe]_vars

\* --------------------- a window rebuild and a recommendation side by side
RaceNows == {T0 + 30, T0 + 90}
RaceSeries == SeriesOf(MaxRaceLen, 1, RecValues, T0, 60)

\* an ingestion at line 217, its prices stored and its windows built, over the
\* windows an earlier cycle left; a recommendation at line 63
InitRace ==
  /\ clock \in RaceNows
  /\ \E s1 \in RaceSeries, s2 \in RecSecondSeries, t \in RaceNows :
       LET rows1 == PriceInserts(s1, "real-time")
           rows2 == PriceInserts(s2, "real-time")
       IN /\ t <= clock
          /\ electricity_prices = Upsert(Upsert({}, rows1), rows2)
          /\ lastUpsert = Landed(rows2) @@ Landed(rows1)
          /\ electricity_windows =
               WindowInserts(BuildWindows(s1, RecBreakpoints))
          /\ ing = [i \in Ingesters |->
                     IF i = "cron"
                     THEN [IdleIngest EXCEPT
                             !.pc = "delete", !.now = t, !.feed = "ok",
                             !.prices = s2, !.wrotePrices = TRUE,
                             !.sortedPrices =
                               HistoricalPrices(electricity_prices, t),
                             !.bp = RecBreakpoints,
                             !.windows = BuildWindows(s2, RecBreakpoints)]
                     ELSE IdleIngest]
  /\ rec = [IdleRec EXCEPT !.pc = "readwindows", !.now = clock]
  /\ hist = IdleHist
  /\ requests = MaxRequests

NextRace ==
  \/ IngestDeleteOld("cron")
  \/ IngestInsertWindows("cron")
  \/ RecReadWindows
  \/ RecReadPrices

SpecRace == InitRace /\ [][NextRace]_vars

\* ------------------------------------------ historical averaging alone
Week == 7 * DayMinutes

\* instants of three weeks: two days of the first week, the same weekday of
\* the second and third, at two hours of the day
HistDays == {0, 1, 7, 14}
HistHours == {5, 23}
HistInstants == {d * DayMinutes + h * 60 : d \in HistDays, h \in HistHours}
HistValues == {USD(10), USD(15), USD(40)}
HistNows == {2 * Week + 3 * 60, 2 * Week + DayMinutes + 3 * 60}

\* the price tables that ingestions of those weeks can have left: one row
\* per key
HistTables ==
  UNION {{{PriceRow([timestamp |-> t, lmp_usd_mwh |-> f[t]], "real-time") :
             t \in S} : f \in [S -> HistValues]} :
         S \in {X \in SUBSET HistInstants : Cardinality(X) <= MaxObs}}

InitAverages ==
  /\ clock \in HistNows
  /\ electricity_prices \in HistTables
  /\ lastUpsert = [k \in {Key(r) : r \in electricity_prices} |->
                     (CHOOSE r \in electricity_prices : Key(r) = k).lmp_usd_mwh]
  /\ electricity_windows = << >>
  /\ ing = [i \in Ingesters |-> IdleIngest]
  /\ rec = IdleRec
  /\ hist = IdleHist
  /\ requests = MaxRequests - 1

SpecAverages == InitAverages /\ [][Averages]_vars

\* ====================================================================== claims

\* the number of observations folded into the windows before the k-th
RECURSIVE Offset(_, _)
Offset(ws, k) == IF k <= 1 THEN 0 ELSE Offset(ws, k - 1) + Len(ws[k - 1].prices)

Folded(ws) == [k \in 1..Len(ws) |-> Len(ws[k].prices)]

\* C1. Window label homogeneity: every observation of the source series that
\* a built window covers classifies, under the scan's breakpoints, to the
\* label of that window.
C1_WindowLabelHomogeneity ==
  \A i \in Ingesters :
    ing[i].pc = "delete" =>
      LET ws == ing[i].windows
          prices == ing[i].prices
      IN \A k \in 1..Len(ws) :
           \A j \in 1..Len(ws[k].prices) :
             /\ Offset(ws, k) + j <= Len(prices)
             /\ prices[Offset(ws, k) + j].lmp_usd_mwh = ws[k].prices[j]
             /\ Classify(prices[Offset(ws, k) + j].lmp_usd_mwh, ing[i].bp).label
                  = ws[k].label

C1_Witness ==
  /\ ing["cron"].pc = "delete"
  /\ Len(ing["cron"].windows) >= 3
  /\ \E k \in 1..Len(ing["cron"].windows) :
       /\ Len(ing["cron"].windows[k].prices) >= 2
       /\ ing["cron"].windows[k].label = "okay"

\* C2. Window coverage: the observation counts of the built windows sum to
\* the number of input observations, the windows' observations in order are
\* the input series, and every input observation lies in exactly one window.
C2_WindowCoverage ==
  \A i \in Ingesters :
    ing[i].pc = "delete" =>
      LET ws == ing[i].windows
          prices == ing[i].prices
      IN /\ SumSeq(Folded(ws)) = Len(prices)
         /\ Concat([k \in 1..Len(ws) |-> ws[k].prices]) = Values(prices)
         /\ \A j \in 1..Len(prices) :
              Cardinality({k \in 1..Len(ws) :
                             /\ ws[k].start_time <= prices[j].timestamp
                             /\ prices[j].timestamp <= ws[k].end_time}) = 1

C2_Witness ==
  /\ ing["cron"].pc = "delete"
  /\ Len(ing["cron"].prices) >= 5
  /\ Len(ing["cron"].windows) >= 2
  /\ Len(ing["cron"].windows[Len(ing["cron"].windows)].prices) >= 2

\* C3. Percentile monotonicity: for every non-empty sorted sample the
\* breakpoints satisfy p25 <= p50 <= p75.
C3_PercentileMonotonicity ==
  \A i \in Ingesters :
    (ing[i].pc = "build" /\ ing[i].sortedPrices # << >>) =>
      /\ ing[i].bp.p25 <= ing[i].bp.p50
      /\ ing[i].bp.p50 <= ing[i].bp.p75

\* C4. A recommendation never recommends the past: the window behind a
\* non-null recommendation, single or merged, ends strictly after now.
C4_NeverThePast ==
  /\ rec.bestWindow # Null => rec.bestWindow.end_time > rec.now
  /\ (rec.resp.status = 200 /\ rec.resp.recommendation # Null) =>
       /\ rec.bestWindow # Null
       /\ rec.bestWindow.end_time > rec.now

C4_Witness ==
  /\ rec.resp.status = 200
  /\ rec.resp.recommendation # Null
  /\ \E k \in 1..Len(rec.windows) :
       /\ rec.windows[k].label = "great"
       /\ rec.windows[k].duration_minutes >= rec.requiredDuration
       /\ rec.windows[k].end_time <= rec.now
       /\ rec.windows[k].avg_price < rec.bestWindow.avg_price

Qualifying ==
  {k \in 1..Len(rec.futureWindows) :
     /\ rec.futureWindows[k].label = "great"
     /\ rec.futureWindows[k].duration_minutes >= rec.requiredDuration}

\* C5. First-fit over best-fit: with two or more future great windows of
\* sufficient duration, the one returned is one of them and none of them
\* starts earlier, whatever their prices.
C5_FirstFit ==
  (rec.pc \in {"readprices", "done"} /\ Cardinality(Qualifying) >= 2) =>
    /\ \E k \in Qualifying : rec.bestWindow = rec.futureWindows[k]
    /\ \A k \in Qualifying :
         rec.bestWindow.start_time <= rec.futureWindows[k].start_time

C5_Witness ==
  /\ rec.resp.status = 200
  /\ Cardinality(Qualifying) >= 2
  /\ \E k \in Qualifying :
       /\ rec.futureWindows[k].start_time > rec.bestWindow.start_time
       /\ rec.futureWindows[k].avg_price < rec.bestWindow.avg_price

\* C6. Idempotent ingestion under any interleaving: the price table holds at
\* most one row per (timestamp, zone, source), and that row holds the value of
\* the last upsert that landed for the key.
C6_IdempotentIngestion ==
  /\ \A r, q \in electricity_prices : Key(r) = Key(q) => r = q
  /\ \A r \in electricity_prices :
       /\ Key(r) \in DOMAIN lastUpsert
       /\ lastUpsert[Key(r)] = r.lmp_usd_mwh
  /\ \A key \in DOMAIN lastUpsert : \E r \in electricity_prices : Key(r) = key

C6_Witness ==
  /\ ing["cron"].wrotePrices
  /\ ing["triggered"].wrotePrices
  /\ ing["cron"].prices[1].timestamp = ing["triggered"].prices[1].timestamp
  /\ ing["cron"].prices[1].lmp_usd_mwh # ing["triggered"].prices[1].lmp_usd_mwh
  /\ Cardinality(electricity_prices) = 1

Summary(ws) ==
  [k \in 1..Len(ws) |->
     <<ws[k].label, ws[k].duration_minutes, WindowInsert(ws[k]).avg_price>>]

ScenarioC7(i) ==
  /\ ing[i].pc = "delete"
  /\ Values(ing[i].prices) = <<USD(10), USD(10), USD(10), USD(40), USD(40),
                               USD(15), USD(15), USD(15)>>
  /\ ing[i].bp = [p25 |-> USD(12), p50 |-> USD(20), p75 |-> USD(35)]

\* C7 as stated. The series [10,10,10,40,40,15,15,15] under breakpoints
\* 12, 20, 35 yields great 180 min avg 10, okay 120 min avg 40, great 180 min
\* avg 15.
C7_ScenarioAsStated ==
  \A i \in Ingesters :
    ScenarioC7(i) =>
      Summary(ing[i].windows) = << <<"great", 180, USD(10)>>,
                                   <<"okay", 120, USD(40)>>,
                                   <<"great", 180, USD(15)>> >>

\* C7 as amended. The same series under the same breakpoints yields great
\* 180 min avg 10, avoid 120 min avg 40 (40 > p75), good 180 min avg 15
\* (p25 < 15 <= p50).
C7_ScenarioAmended ==
  \A i \in Ingesters :
    ScenarioC7(i) =>
      Summary(ing[i].windows) = << <<"great", 180, USD(10)>>,
                                   <<"avoid", 120, USD(40)>>,
                                   <<"good", 180, USD(15)>> >>

C7_Witness == ScenarioC7("cron") /\ Len(ing["cron"].windows) = 3

OneObservationGreat(w, t) ==
  /\ w.label = "great"
  /\ w.duration_minutes = 60
  /\ w.start_time = t
  /\ w.end_time = t

\* C8. Merge scenario: required duration 90 and the future windows being two
\* great one-observation windows at T0 and T0 + 60 yield a merged
\* recommendation from T0 to T0 + 120 of duration 120.
C8_MergeScenario ==
  ( /\ rec.pc = "readprices"
    /\ rec.requiredDuration = 90
    /\ Len(rec.futureWindows) = 2
    /\ OneObservationGreat(rec.futureWindows[1], T0)
    /\ OneObservationGreat(rec.futureWindows[2], T0 + 60) ) =>
    /\ rec.bestWindow # Null
    /\ rec.bestWindow.start_time = T0
    /\ rec.bestWindow.end_time = T0 + 120
    /\ rec.bestWindow.duration_minutes = 120

\* C9. Simulated fallback succeeds: an ingestion whose upstream fetch failed
\* or matched no row, and which met no store outage, ends with 200,
\* success: true, prices = 24 and dataSource simulated, its rows persisted.
C9_SimulatedFallbackSucceeds ==
  \A i \in Ingesters :
    ( /\ ing[i].pc = "done"
      /\ ing[i].feed \in {"http_error", "no_rows"}
      /\ ~ing[i].storeDown ) =>
      /\ ing[i].resp.status = 200
      /\ ing[i].resp.success
      /\ ing[i].resp.prices = 24
      /\ ing[i].resp.dataSource = "simulated"
      /\ ing[i].wrotePrices

\* C10. SourceFormatError is not recovered: an ingestion whose upstream header
\* lacks a required column does not fall back to simulated data; it ends with
\* 500 and writes no price and no window row.
C10_SourceFormatErrorNotRecovered ==
  \A i \in Ingesters :
    ing[i].feed = "no_header" =>
      /\ ing[i].dataSource # "simulated"
      /\ Len(ing[i].prices) = 0
      /\ ing[i].pc = "done"
      /\ ing[i].resp.status = 500
      /\ ~ing[i].wrotePrices
      /\ ~ing[i].wroteWindows

\* C11. StoreError is always propagated in ingest: an ingestion one of whose
\* store operations failed (upsert, historical read, stale-window delete,
\* window insert) writes no windows afterwards, never answers 200, and ends
\* with 500.
C11_StoreErrorPropagated ==
  \A i \in Ingesters :
    ing[i].storeDown =>
      /\ ~ing[i].wroteWindows
      /\ ing[i].resp.status # 200
      /\ ing[i].pc = "done" => ing[i].resp.status = 500

\* the day's windows a read at t would find in table
DayCount(table, t) == Len(DayWindows(table, "J", t))

\* C12. The delete-then-insert race: a window read that falls between an
\* ingestion's successful stale-window delete and its window insert sees no
\* window that starts before that ingestion's now, and at most as many
\* windows as the table held before the delete and as it holds after the
\* insert; the witness is such a read seeing strictly fewer than both.
C12_DeleteThenInsertRace ==
  [][ ( /\ rec.pc = "readwindows"
        /\ rec'.pc = "readprices"
        /\ ing["cron"].pc = "insert"
        /\ ~ing["cron"].storeDown ) =>
      /\ \A k \in 1..Len(rec'.windows) :
           rec'.windows[k].start_time >= ing["cron"].now
      /\ Len(rec'.windows) <= DayCount(ing["cron"].before, rec.now)
      /\ Len(rec'.windows) <=
           DayCount(electricity_windows \o WindowInserts(ing["cron"].windows),
                    rec.now) ]_vars

C12_Witness ==
  /\ ing["cron"].pc = "insert"
  /\ ~ing["cron"].storeDown
  /\ rec.pc = "readprices"
  /\ Len(rec.windows) < DayCount(ing["cron"].before, rec.now)
  /\ Len(rec.windows) <
       DayCount(electricity_windows \o WindowInserts(ing["cron"].windows),
                rec.now)

\* C13. The cache-warming trigger never blocks the recommendation: while the
\* ingestion a recommendation triggered is still running, the recommendation
\* can take its next step (its window read, selection and response do not
\* wait for the ingestion to complete).
C13_TriggerNeverBlocks ==
  ing["triggered"].pc \notin {"idle", "done"} => ENABLED Recommend

\* the 200 response of lines 202-222 for what the handler read
ResponseFor(windows, prices, appliance, dataSource, t) ==
  LET cheapest == CheapestWakingHour(prices) IN
  [status |-> 200,
   recommendation |->
     Recommendation(BestWindow(FutureWindows(windows, t),
                               RequiredDuration(appliance))),
   windows |-> windows,
   prices |-> prices,
   appliance |-> appliance,
   requiredDuration |-> RequiredDuration(appliance),
   dataSource |-> dataSource,
   cheapestWakingHour |->
     IF cheapest = Null THEN Null
     ELSE [hour |-> HourOf(cheapest.timestamp), price |-> cheapest.lmp_usd_mwh]]

\* C14. A failing cache-warming trigger never fails the recommendation:
\* whatever the trigger did (not needed, answered 200, answered an error,
\* threw), the handler reaches the window read carrying nothing but its now;
\* it answers 500 only when one of its own store reads failed; and otherwise
\* it answers the 200 response that the store content alone determines.
C14_TriggerFailureNeverFails ==
  /\ rec.pc = "readwindows" =>
       rec = [IdleRec EXCEPT !.pc = "readwindows", !.now = rec.now,
                             !.trigger = rec.trigger]
  /\ (rec.pc = "done" /\ rec.resp.status # 200) =>
       (rec.resp.status = 500 /\ rec.storeDown)
  /\ (rec.pc = "done" /\ ~rec.storeDown) =>
       /\ rec.windows \in OrderedByStart(DayWindows(electricity_windows, "J",
                                                    rec.now))
       /\ \E source \in AllowedSources :
            /\ rec.prices = DayPrices(electricity_prices, "J", source, rec.now)
            /\ rec.resp = ResponseFor(rec.windows, rec.prices, rec.appliance,
                                      source, rec.now)

C14_Witness ==
  /\ rec.pc = "done"
  /\ rec.trigger = "error"
  /\ rec.resp.status = 200
  /\ rec.resp.recommendation # Null

\* the windows i..j of fw are a run of great windows, adjacent in scan order,
\* of at least two windows, whose durations sum to d or more
RunDuration(fw, i, j) ==
  SumSeq([k \in 1..(j - i + 1) |-> fw[i + k - 1].duration_minutes])

Reaches(fw, i, j, d) ==
  /\ i < j
  /\ j <= Len(fw)
  /\ \A k \in i..j : fw[k].label = "great"
  /\ RunDuration(fw, i, j) >= d

RunStarts(fw, d) ==
  {i \in 1..Len(fw) : \E j \in 1..Len(fw) : Reaches(fw, i, j, d)}

Least(S) == CHOOSE x \in S : \A y \in S : x <= y

\* C15. Merged-run fallback: when no single future great window is long
\* enough, the window behind the recommendation is null unless some run of
\* adjacent great future windows reaches the requirement; then it is merged
\* from the earliest-starting such run, cut at the first window at which the
\* cumulative duration reaches the requirement: it starts at the run's first
\* start_time, ends at that window's end_time, and lasts the sum of the merged
\* durations.
C15_MergedRunFallback ==
  (rec.pc \in {"readprices", "done"} /\ Qualifying = {}) =>
    LET fw == rec.futureWindows
        d == rec.requiredDuration
    IN IF RunStarts(fw, d) = {} THEN rec.bestWindow = Null
       ELSE LET i == Least(RunStarts(fw, d))
                j == Least({m \in 1..Len(fw) : Reaches(fw, i, m, d)})
            IN /\ rec.bestWindow # Null
               /\ rec.bestWindow.label = "great"
               /\ rec.bestWindow.start_time = fw[i].start_time
               /\ rec.bestWindow.end_time = fw[j].end_time
               /\ rec.bestWindow.duration_minutes = RunDuration(fw, i, j)

C15_Witness ==
  /\ rec.resp.status = 200
  /\ Qualifying = {}
  /\ rec.resp.recommendation # Null
  /\ Len(rec.futureWindows) >= 4
  /\ rec.futureWindows[1].label = "great"
  /\ rec.futureWindows[2].label # "great"
  /\ rec.bestWindow.start_time > rec.futureWindows[1].start_time

\* C16. No suitable window is a result, not an error: when the future
\* windows hold neither a great window of sufficient duration nor a run of
\* adjacent great windows reaching it (no windows at all included), the
\* window read yields no window, and the request ends with status 200 and
\* recommendation null unless a store read of the handler itself failed.
C16_NoSuitableWindowIsNull ==
  ( /\ rec.pc \in {"readprices", "done"}
    /\ Qualifying = {}
    /\ RunStarts(rec.futureWindows, rec.requiredDuration) = {} ) =>
    /\ rec.bestWindow = Null
    /\ rec.pc = "done" =>
         \/ rec.resp.status = 200 /\ rec.resp.recommendation = Null
         \/ rec.resp.status = 500 /\ rec.storeDown

C16_Witness ==
  /\ rec.pc = "done"
  /\ rec.resp.status = 200
  /\ rec.resp.recommendation = Null
  /\ rec.resp.windows # << >>
  /\ \E k \in 1..Len(rec.futureWindows) : rec.futureWindows[k].label = "great"

\* C17. Nearest-rank breakpoints: for every non-empty sorted sample of n
\* values the breakpoints are exactly sorted[floor(n * 0.25)],
\* sorted[floor(n * 0.50)] and sorted[floor(n * 0.75)] (0-based), the
\* constants 25, 35, 45 being used for the empty sample only.
C17_NearestRank ==
  \A i \in Ingesters :
    (ing[i].pc = "build" /\ ing[i].sortedPrices # << >>) =>
      LET sorted == ing[i].sortedPrices
          n == Len(sorted)
      IN /\ ing[i].bp.p25 = sorted[(n \div 4) + 1]
         /\ ing[i].bp.p50 = sorted[(n \div 2) + 1]
         /\ ing[i].bp.p75 = sorted[((3 * n) \div 4) + 1]

\* C18. Empty historical sample degrades to defaults: when the historical
\* read returns no rows the breakpoints are exactly 25, 35, 45 and the
\* ingestion goes on to build its windows, no error raised.
C18_EmptySampleDefaults ==
  \A i \in Ingesters :
    (ing[i].pc = "build" /\ ing[i].sortedPrices = << >>) =>
      /\ ing[i].bp = [p25 |-> USD(25), p50 |-> USD(35), p75 |-> USD(45)]
      /\ ing[i].resp = NoResponse
      /\ ~ing[i].storeDown

C18_Witness ==
  /\ ing["cron"].pc = "build"
  /\ ing["cron"].sortedPrices = << >>
  /\ ing["cron"].bp.p25 = FallbackP25
  /\ ing["cron"].bp.p75 = FallbackP75

\* the cheapest label whose breakpoint v does not exceed, said rung by rung
Rung(v, bp) ==
  CASE v <= bp.p25 -> <<"great", 25>>
    [] v > bp.p25 /\ v <= bp.p50 -> <<"good", 50>>
    [] v > bp.p25 /\ v > bp.p50 /\ v <= bp.p75 -> <<"okay", 75>>
    [] v > bp.p25 /\ v > bp.p50 /\ v > bp.p75 -> <<"avoid", 100>>

\* C19. Classification ladder with ties to the cheaper label: every
\* observation lies in a window labelled great if v <= p25, else good if
\* v <= p50, else okay if v <= p75, else avoid; a price equal to p25 is great,
\* one equal to p50 is never okay or avoid, one equal to p75 is never avoid.
C19_ClassificationLadder ==
  \A i \in Ingesters :
    ing[i].pc = "delete" =>
      LET ws == ing[i].windows
          bp == ing[i].bp
      IN \A k \in 1..Len(ws) :
           \A j \in 1..Len(ws[k].prices) :
             LET v == ws[k].prices[j] IN
             /\ <<ws[k].label, ws[k].percentile>> = Rung(v, bp)
             /\ v = bp.p25 => ws[k].label = "great"
             /\ v = bp.p50 => ws[k].label \in {"great", "good"}
             /\ v = bp.p75 => ws[k].label \in {"great", "good", "okay"}

C19_Witness ==
  /\ ing["cron"].pc = "delete"
  /\ ing["cron"].bp \in TieBreaks
  /\ Len(ing["cron"].windows) = 3
  /\ ing["cron"].windows[1].label = "okay"
  /\ ing["cron"].windows[1].prices[1] = ing["cron"].bp.p75
  /\ ing["cron"].windows[2].label = "great"
  /\ ing["cron"].windows[2].prices[1] = ing["cron"].bp.p25
  /\ ing["cron"].windows[3].label = "good"
  /\ ing["cron"].windows[3].prices[1] = ing["cron"].bp.p50

\* the positions, in the returned prices, of the observations whose local
\* hour of day lies in [8, 23]
Waking(ps) == {k \in 1..Len(ps) : HourOf(ps[k].timestamp) \in 8..23}

\* C20. Cheapest waking hour: in a 200 response, cheapestWakingHour is null
\* when no returned price observation has its hour in [8, 23]; otherwise it
\* is the hour and price of such an observation of minimum value, and every
\* such observation before it in timestamp order is strictly dearer.
C20_CheapestWakingHour ==
  (rec.pc = "done" /\ rec.resp.status = 200) =>
    LET ps == rec.resp.prices IN
    IF Waking(ps) = {} THEN rec.resp.cheapestWakingHour = Null
    ELSE \E k \in Waking(ps) :
           /\ \A m \in Waking(ps) : ps[k].lmp_usd_mwh <= ps[m].lmp_usd_mwh
           /\ \A m \in Waking(ps) :
                m < k => ps[m].lmp_usd_mwh > ps[k].lmp_usd_mwh
           /\ \A m \in 1..(Len(ps) - 1) :
                ps[m].timestamp < ps[m + 1].timestamp
           /\ rec.resp.cheapestWakingHour =
                [hour |-> HourOf(ps[k].timestamp), price |-> ps[k].lmp_usd_mwh]

C20_Witness ==
  /\ rec.pc = "done"
  /\ rec.resp.status = 200
  /\ rec.resp.cheapestWakingHour # Null
  /\ LET ps == rec.resp.prices IN
     /\ \E m \in 1..Len(ps) :
          /\ m \notin Waking(ps)
          /\ ps[m].lmp_usd_mwh < rec.resp.cheapestWakingHour.price
     /\ \E m \in Waking(ps) :
          /\ ps[m].lmp_usd_mwh = rec.resp.cheapestWakingHour.price
          /\ HourOf(ps[m].timestamp) > rec.resp.cheapestWakingHour.hour
     /\ \E m \in Waking(ps) :
          ps[m].lmp_usd_mwh > rec.resp.cheapestWakingHour.price

\* the loaded observations of today's weekday at the given hour
Matching(h) ==
  {k \in 1..Len(hist.prices) :
     /\ DayOfWeek(hist.prices[k].timestamp) = DayOfWeek(hist.now)
     /\ HourOf(hist.prices[k].timestamp) = h}

RECURSIVE SumOver(_, _)
SumOver(S, f) ==
  IF S = {} THEN 0
  ELSE LET x == CHOOSE y \in S : TRUE IN f[x] + SumOver(S \ {x}, f)

\* C21. Historical averaging always emits 24 entries: a 200 response holds
\* one entry per hour 0..23 in ascending order; an hour with no loaded
\* observation on today's weekday has avgPrice null and sampleCount 0, any
\* other hour has the arithmetic mean of its matching observations, and the
\* sampleCounts sum to the number of loaded observations of today's weekday.
C21_TwentyFourEntries ==
  (hist.pc = "done" /\ hist.resp.status = 200) =>
    LET out == hist.resp.hourlyAverages IN
    /\ Len(out) = 24
    /\ \A h \in 0..23 :
         LET e == out[h + 1] IN
         /\ e.hour = h
         /\ e.sampleCount = Cardinality(Matching(h))
         /\ Matching(h) = {} => e.avgPrice = Null
         /\ Matching(h) # {} =>
              /\ e.avgPrice # Null
              /\ e.avgPrice.num * Cardinality(Matching(h))
                   = SumOver(Matching(h), Values(hist.prices)) * e.avgPrice.den
    /\ SumSeq([k \in 1..24 |-> out[k].sampleCount])
         = Cardinality({k \in 1..Len(hist.prices) :
                          DayOfWeek(hist.prices[k].timestamp)
                            = DayOfWeek(hist.now)})

C21_Witness ==
  /\ hist.pc = "done"
  /\ hist.resp.status = 200
  /\ Len(hist.prices) = 3
  /\ \E h \in 0..23 :
       /\ hist.resp.hourlyAverages[h + 1].sampleCount = 2
       /\ hist.resp.hourlyAverages[h + 1].avgPrice.num = USD(10) + USD(15)
  /\ SumSeq([k \in 1..24 |-> hist.resp.hourlyAverages[k].sampleCount]) = 2

\* C22. Windows are rebuilt from scratch: whenever no ingestion is under way,
\* the window table holds for a zone at most one window per start_time (the
\* windows of an earlier cycle do not coexist with those of a later one).
C22_RebuiltFromScratch ==
  (\A i \in Ingesters : ing[i].pc \in {"idle", "done"}) =>
    \A j, k \in 1..Len(electricity_windows) :
      ( /\ electricity_windows[j].zone = electricity_windows[k].zone
        /\ electricity_windows[j].start_time = electricity_windows[k].start_time )
        => j = k

\* a is b with some of its elements removed
RECURSIVE IsSubSeq(_, _)
IsSubSeq(a, b) ==
  IF a = << >> THEN TRUE
  ELSE IF b = << >> THEN FALSE
  ELSE IF Head(a) = Head(b) THEN IsSubSeq(Tail(a), Tail(b))
  ELSE IsSubSeq(a, Tail(b))

IsPrefix(a, b) == Len(a) <= Len(b) /\ SubSeq(b, 1, Len(a)) = a

\* C23. Stored windows are never mutated in place: a step of recommend or of
\* historical averaging leaves the window table and the price table as they
\* are, and any other step leaves the window table as it is, removes rows from
\* it, or appends rows to it; no stored row changes.
C23_NeverMutatedInPlace ==
  [][ /\ (Recommend \/ Averages) =>
           UNCHANGED <<electricity_prices, electricity_windows>>
      /\ \/ IsSubSeq(electricity_windows', electricity_windows)
         \/ IsPrefix(electricity_windows, electricity_windows') ]_vars

C23_Witness ==
  /\ rec.pc = "done"
  /\ rec.resp.status = 200
  /\ rec.bestWindow # Null
  /\ \A k \in 1..Len(electricity_windows) :
       electricity_windows[k] # rec.bestWindow
  /\ Len(electricity_windows) >= 2
  /\ rec.windows \in OrderedByStart(electricity_windows)

\* C24. Windows are maximal runs: in the windows of one scan no two
\* consecutive windows carry the same label.
C24_MaximalRuns ==
  \A i \in Ingesters :
    ing[i].pc = "delete" =>
      \A k \in 1..(Len(ing[i].windows) - 1) :
        ing[i].windows[k].label # ing[i].windows[k + 1].label

C24_Witness ==
  /\ ing["cron"].pc = "delete"
  /\ Len(ing["cron"].windows) = 3
  /\ Len(ing["cron"].windows[2].prices) >= 2
  /\ ing["cron"].windows[1].label = ing["cron"].windows[3].label
  /\ Len(ing["cron"].prices) >= 6

\* C25. Window shape: for a series in ascending timestamp order every built
\* window starts at its first observation's timestamp, ends at its last
\* observation's timestamp, and lasts 60 minutes per observation whatever the
\* spacing of the timestamps; the windows come in ascending start_time order,
\* each ending before the next one starts.
C25_WindowShape ==
  \A i \in Ingesters :
    ing[i].pc = "delete" =>
      LET ws == ing[i].windows
          prices == ing[i].prices
      IN \A k \in 1..Len(ws) :
           LET n == Len(ws[k].prices) IN
           /\ n >= 1
           /\ ws[k].start_time = prices[Offset(ws, k) + 1].timestamp
           /\ ws[k].end_time = prices[Offset(ws, k) + n].timestamp
           /\ ws[k].start_time <= ws[k].end_time
           /\ ws[k].duration_minutes = 60 * n
           /\ k < Len(ws) =>
                /\ ws[k].start_time < ws[k + 1].start_time
                /\ ws[k].end_time < ws[k + 1].start_time

C25_Witness ==
  /\ ing["cron"].pc = "delete"
  /\ Len(ing["cron"].windows) = 2
  /\ Len(ing["cron"].windows[1].prices) = 3
  /\ ing["cron"].windows[1].end_time - ing["cron"].windows[1].start_time = 10
  /\ ing["cron"].windows[1].duration_minutes = 180
  /\ ing["cron"].windows[2].start_time = ing["cron"].windows[1].end_time + 5

\* C26. Cache warming converges: a recommendation goes on to trigger an
\* ingestion only if the store holds no day-ahead observation of the zone for
\* today, and not when an ingestion cycle has completed successfully for today
\* (a completed cycle leaves its prices and its windows of today in the store).
C26_CacheWarmingConverges ==
  rec.pc = "trigger" =>
    /\ DayPrices(electricity_prices, "J", "day-ahead", rec.now) = << >>
    /\ ~ ( /\ DayPrices(electricity_prices, "J", "real-time", rec.now) # << >>
           /\ DayCount(electricity_windows, rec.now) > 0 )

\* the appliance profiles, in minutes
Profile ==
  [dishwasher |-> 120, laundry |-> 90, dryer |-> 60, other |-> 90]

\* C27. Every non-null recommendation is sufficient and great: a
\* recommendation in a 200 response has label great and a duration of at
\* least the required duration of the requested appliance (120 dishwasher,
\* 90 laundry, 60 dryer, 90 for any other identifier).
C27_SufficientAndGreat ==
  (rec.pc = "done" /\ rec.resp.status = 200) =>
    /\ rec.resp.requiredDuration = Profile[rec.resp.appliance]
    /\ rec.resp.recommendation # Null =>
         /\ rec.resp.recommendation.label = "great"
         /\ rec.resp.recommendation.duration >= Profile[rec.resp.appliance]

C27_Witness ==
  /\ rec.pc = "done"
  /\ rec.resp.status = 200
  /\ rec.resp.appliance = "other"
  /\ rec.resp.recommendation # Null
  /\ \E k \in 1..Len(rec.futureWindows) :
       /\ rec.futureWindows[k].label = "great"
       /\ rec.futureWindows[k].duration_minutes < 90
       /\ rec.futureWindows[k].start_time < rec.bestWindow.start_time

\* the minutes of the chosen window that lie at or after the call time: from
\* max(now, start_time) to the end of the slot of the window's last observation
UsableMinutes(w, t) == (w.end_time + SlotMinutes) - Max(t, w.start_time)

\* C28. A recommended block is usable from now: for every non-null
\* recommendation, the part of the recommended window at or after the call
\* time is at least the required duration of the appliance.
C28_UsableFromNow ==
  (rec.pc = "done" /\ rec.resp.status = 200 /\ rec.bestWindow # Null) =>
    UsableMinutes(rec.bestWindow, rec.now) >= Profile[rec.resp.appliance]

\* C29. A failed ingestion leaves the window store unchanged: when a request
\* ends with an error response at the window insert, the stored windows are
\* those that were stored when the request issued its stale-window delete (a
\* request that fails earlier has not touched the window store at all).
C29_FailedIngestionLeavesWindows ==
  [][\A self \in Ingesters :
       (/\ ing[self].pc = "insert"
        /\ ing'[self].pc = "done"
        /\ ing'[self].resp.status = 500)
         => electricity_windows' = ing[self].before]_vars

\* the timestamps of the observations a request fetched or simulated
OwnTimestamps(self) ==
  {ing[self].prices[i].timestamp : i \in 1..Len(ing[self].prices)}

\* C30. The historical sample is never empty when breakpoints are computed: a
\* request that has computed its breakpoints upserted its own observations
\* before the historical read, they lie inside the 30-day lookback, and the
\* sample it read is not empty and holds at least one value for each of them,
\* so no breakpoint index reads past the sample.
C30_SampleNeverEmpty ==
  \A self \in Ingesters :
    ing[self].pc \in {"delete", "insert"} =>
      /\ ing[self].wrotePrices
      /\ ing[self].prices # << >>
      /\ \A ts \in OwnTimestamps(self) :
           ts >= ing[self].now - LookbackDays * DayMinutes
      /\ ing[self].sortedPrices # << >>
      /\ Len(ing[self].sortedPrices) >= Cardinality(OwnTimestamps(self))
      /\ \A q \in {25, 50, 75} :
           (Len(ing[self].sortedPrices) * q) \div 100
             < Len(ing[self].sortedPrices)

C30_Witness ==
  /\ ing["cron"].pc = "delete"
  /\ ing["cron"].feed = "ok"
  /\ requests = 1
  /\ Len(ing["cron"].sortedPrices) = Cardinality(OwnTimestamps("cron"))

=============================================================================
